---- MODULE Spec2Model ----
(***************************************************************************)
(* Buddy-system allocator of buddySystem.cxx: the tree of Buddy objects,   *)
(* Buddy::allocate and Buddy::release with everything they call (check,    *)
(* split, merge, the destructor, sizeToBytes, bytesToSize).                *)
(*                                                                         *)
(* The Buddy objects live in `heap`, a function from object identity to    *)
(* the object's fields (the fields keep their source names).  `new Buddy`  *)
(* in split() gives the left child of object n the identity 2n and the     *)
(* right child 2n+1, so equal trees are equal states.  The bytes of the    *)
(* backing region (what memcpy writes) are not part of the state: nothing  *)
(* in the allocator ever reads them.                                       *)
(***************************************************************************)
EXTENDS Integers, FiniteSets, Sequences, TLC

\* heap: the Buddy objects; lastOp: the call made last, its argument and what
\* it returned (address for allocate, returnValue for release);
\* conv: the arguments given to bytesToSize on its own and what it returned;
\* memLocations, j, pc: main's table of saved addresses, its variable j and
\* the place main has reached
VARIABLES heap, lastOp, conv, memLocations, j, pc

vars == <<heap, lastOp, conv, memLocations, j, pc>>

\* ---- program constants --------------------------------------------------
MAX_MEMORY_OFFSET == 1048576
BASE_SIZE == 65536
\* the null pointer, for Buddy* and for void*
NULL == 0
\* the address malloc(MAX_MEMORY_OFFSET) returned in main: any non-null address
memoryBlock == 1048576
\* the width main passes to the root's constructor
RootOrder == 4
\* identity of the root object (main's `head`)
head == 1
\* number of entries of main's memLocations
Slots == 16

\* ---- bounds of the model --------------------------------------------------
\* at most this many blocks are in use at the same time
MaxLive == 2
\* at most this many entries of the uninitialized memLocations start non-null
MaxGarbage == 1

\* ---- helpers ---------------------------------------------------------------
RECURSIVE Pow2(_)
Pow2(n) == IF n <= 0 THEN 1 ELSE 2 * Pow2(n - 1)

\* BASE_SIZE * pow(2,size), converted from double to size_t
sizeToBytes(size) ==
    IF size >= 0 THEN BASE_SIZE * Pow2(size) ELSE BASE_SIZE \div Pow2(0 - size)

RECURSIVE bytesToSizeLoop(_, _, _)
bytesToSizeLoop(size, num, numBytes) ==
    IF num < numBytes THEN bytesToSizeLoop(size + 1, num * 2, numBytes) ELSE size

bytesToSize(numBytes) == bytesToSizeLoop(0, 1, numBytes) - 16

\* Buddy::Buddy(memBegin, width)
Buddy(memBegin, width) ==
    [memStart |-> memBegin, size |-> width, left |-> NULL, right |-> NULL,
     terminal |-> FALSE, memLength |-> 0]

getLocation(h, n) == h[n].memStart
getMaxLength(h, n) == sizeToBytes(h[n].size)
getLength(h, n) == h[n].memLength
getLeft(h, n) == h[n].left
getRight(h, n) == h[n].right
isTerminal(h, n) == h[n].terminal
setLength(h, n, numBytes) == [h EXCEPT ![n].memLength = numBytes]

\* check without the test that the block is not in use
RECURSIVE checkIgnoresLength(_, _, _)
checkIgnoresLength(h, n, numBytes) ==
    LET minSize == bytesToSize(numBytes)
        inLeft == checkIgnoresLength(h, h[n].left, numBytes)
        inRight == checkIgnoresLength(h, h[n].right, numBytes)
    IN  IF h[n].size < minSize THEN NULL
        ELSE IF ~h[n].terminal THEN n
        ELSE IF inLeft # NULL THEN inLeft
        ELSE IF inRight # NULL THEN inRight
        ELSE NULL

\* check with the right subtree never searched
RECURSIVE checkLeftOnly(_, _, _)
checkLeftOnly(h, n, numBytes) ==
    LET minSize == bytesToSize(numBytes)
    IN  IF h[n].size < minSize \/ h[n].memLength # 0 THEN NULL
        ELSE IF ~h[n].terminal THEN n
        ELSE checkLeftOnly(h, h[n].left, numBytes)

\* Buddy::check: the object found, or NULL.  The code calls check on a child
\* twice, once to test and once to return; check changes nothing, so both calls
\* give the same object and each is evaluated once here.
RECURSIVE check(_, _, _)
check(h, n, numBytes) ==
    LET minSize == bytesToSize(numBytes)
        inLeft == check(h, h[n].left, numBytes)
        inRight == check(h, h[n].right, numBytes)
    IN  IF h[n].size < minSize \/ h[n].memLength # 0 THEN NULL
        ELSE IF ~h[n].terminal THEN n
        ELSE IF inLeft # NULL THEN inLeft
        ELSE IF inRight # NULL THEN inRight
        ELSE NULL

\* split with the right child placed a whole block, not half a block, further
splitWrongBase(h, n) ==
    LET l == 2 * n
        r == 2 * n + 1
    IN  [i \in DOMAIN h \cup {l, r} |->
            IF i = l THEN Buddy(h[n].memStart, h[n].size - 1)
            ELSE IF i = r
                 THEN Buddy(h[n].memStart + sizeToBytes(h[n].size), h[n].size - 1)
            ELSE IF i = n THEN [h[n] EXCEPT !.left = l, !.right = r, !.terminal = TRUE]
            ELSE h[i]]

\* split with the two halves given to the wrong children
splitSwapped(h, n) ==
    LET l == 2 * n
        r == 2 * n + 1
    IN  [i \in DOMAIN h \cup {l, r} |->
            IF i = l
            THEN Buddy(h[n].memStart + sizeToBytes(h[n].size - 1), h[n].size - 1)
            ELSE IF i = r THEN Buddy(h[n].memStart, h[n].size - 1)
            ELSE IF i = n THEN [h[n] EXCEPT !.left = l, !.right = r, !.terminal = TRUE]
            ELSE h[i]]

\* Buddy::split: two new objects, the halves of n's block
split(h, n) ==
    LET l == 2 * n
        r == 2 * n + 1
    IN  [i \in DOMAIN h \cup {l, r} |->
            IF i = l THEN Buddy(h[n].memStart, h[n].size - 1)
            ELSE IF i = r
                 THEN Buddy(h[n].memStart + sizeToBytes(h[n].size - 1), h[n].size - 1)
            ELSE IF i = n THEN [h[n] EXCEPT !.left = l, !.right = r, !.terminal = TRUE]
            ELSE h[i]]

\* the objects that `delete n` destroys: n and, through ~Buddy, its subtree
RECURSIVE destroyed(_, _)
destroyed(h, n) ==
    IF n = NULL THEN {}
    ELSE {n} \cup destroyed(h, h[n].left) \cup destroyed(h, h[n].right)

\* Buddy::merge
merge(h, n) ==
    LET gone == destroyed(h, h[n].left) \cup destroyed(h, h[n].right)
    IN  [i \in DOMAIN h \ gone |->
            IF i = n THEN [h[n] EXCEPT !.terminal = FALSE, !.left = NULL, !.right = NULL]
            ELSE h[i]]

\* the while loop descending into the right child after a split
RECURSIVE allocateLoopRight(_, _, _)
allocateLoopRight(h, location, numBytes) ==
    IF getMaxLength(h, location) > numBytes * 2 /\ bytesToSize(getMaxLength(h, location)) > 0
    THEN allocateLoopRight(split(h, location), getRight(split(h, location), location), numBytes)
    ELSE [heap |-> h, location |-> location]

\* the while loop of Buddy::allocate: the heap and the final location
RECURSIVE allocateLoop(_, _, _)
allocateLoop(h, location, numBytes) ==
    IF getMaxLength(h, location) > numBytes * 2 /\ bytesToSize(getMaxLength(h, location)) > 0
    THEN allocateLoop(split(h, location), getLeft(split(h, location), location), numBytes)
    ELSE [heap |-> h, location |-> location]

\* allocate recording the length in the object check found, not in the leaf
\* the loop ended on
allocateMarksCandidate(h, numBytes) ==
    LET location == check(h, head, numBytes)
    IN  IF location = NULL THEN [heap |-> h, ret |-> NULL]
        ELSE LET w == allocateLoop(h, location, numBytes)
             IN  [heap |-> setLength(w.heap, location, numBytes),
                  ret |-> getLocation(w.heap, w.location)]

\* Buddy::allocate on the root: the heap afterwards and the pointer returned
allocate(h, numBytes) ==
    LET location == check(h, head, numBytes)
    IN  IF location = NULL THEN [heap |-> h, ret |-> NULL]
        ELSE LET w == allocateLoop(h, location, numBytes)
             IN  [heap |-> setLength(w.heap, w.location, numBytes),
                  ret |-> getLocation(w.heap, w.location)]

\* the leaf case with the length cleared before the address is compared
releaseLeafAlways(h, n, memToRelease) ==
    [heap |-> [h EXCEPT ![n].memLength = 0],
     returnValue |-> (memToRelease = h[n].memStart)]

\* Buddy::release at an object without children: free it when the address is its own
releaseLeaf(h, n, memToRelease) ==
    IF memToRelease = h[n].memStart
    THEN [heap |-> [h EXCEPT ![n].memLength = 0], returnValue |-> TRUE]
    ELSE [heap |-> h, returnValue |-> FALSE]

\* the merge condition without the test of the right child's length
mergeConditionIgnoresRight(h, n) ==
    /\ h[n].terminal
    /\ ~isTerminal(h, h[n].right)
    /\ getLength(h, h[n].left) = 0
    /\ ~isTerminal(h, h[n].left)

\* the merge condition with `terminal` read as "has no children"
mergeConditionIntuitive(h, n) ==
    /\ h[n].terminal
    /\ getLength(h, h[n].right) = 0
    /\ isTerminal(h, h[n].right)
    /\ getLength(h, h[n].left) = 0
    /\ isTerminal(h, h[n].left)

\* the merge condition Buddy::release tests before it returns
mergeCondition(h, n) ==
    /\ h[n].terminal
    /\ getLength(h, h[n].right) = 0
    /\ ~isTerminal(h, h[n].right)
    /\ getLength(h, h[n].left) = 0
    /\ ~isTerminal(h, h[n].left)

\* release returning as soon as the left subtree reported success, before the
\* merge condition of this object is tested
RECURSIVE releaseEarlyReturn(_, _, _)
releaseEarlyReturn(h, n, memToRelease) ==
    LET l == h[n].left
        r == h[n].right
        viaLeft == releaseEarlyReturn(h, l, memToRelease)
        fallback == ~(~h[n].terminal \/ memToRelease = h[n].memStart
                        \/ memToRelease = getLocation(h, r))
        found ==
            IF ~h[n].terminal THEN releaseLeaf(h, n, memToRelease)
            ELSE IF memToRelease = h[n].memStart
            THEN IF ~isTerminal(h, l)
                 THEN [heap |-> setLength(h, l, 0), returnValue |-> TRUE]
                 ELSE releaseEarlyReturn(h, l, memToRelease)
            ELSE IF memToRelease = getLocation(h, r)
            THEN IF ~isTerminal(h, r)
                 THEN [heap |-> setLength(h, r, 0), returnValue |-> TRUE]
                 ELSE releaseEarlyReturn(h, r, memToRelease)
            ELSE releaseEarlyReturn(viaLeft.heap, r, memToRelease)
    IN  IF fallback /\ viaLeft.returnValue
        THEN [heap |-> viaLeft.heap, returnValue |-> TRUE]
        ELSE IF mergeCondition(found.heap, n)
        THEN [heap |-> merge(found.heap, n), returnValue |-> found.returnValue]
        ELSE found

\* Buddy::release on object n: the heap afterwards and returnValue
RECURSIVE release(_, _, _)
release(h, n, memToRelease) ==
    LET l == h[n].left
        r == h[n].right
        found ==
            IF ~h[n].terminal THEN releaseLeaf(h, n, memToRelease)
            ELSE IF memToRelease = h[n].memStart
            THEN IF ~isTerminal(h, l)
                 THEN [heap |-> setLength(h, l, 0), returnValue |-> TRUE]
                 ELSE release(h, l, memToRelease)
            ELSE IF memToRelease = getLocation(h, r)
            THEN IF ~isTerminal(h, r)
                 THEN [heap |-> setLength(h, r, 0), returnValue |-> TRUE]
                 ELSE release(h, r, memToRelease)
            ELSE LET viaLeft == release(h, l, memToRelease)
                 IN  IF viaLeft.returnValue
                     THEN [heap |-> viaLeft.heap, returnValue |-> TRUE]
                     ELSE release(viaLeft.heap, r, memToRelease)
    IN  IF mergeCondition(found.heap, n)
        THEN [heap |-> merge(found.heap, n), returnValue |-> found.returnValue]
        ELSE found

\* ---- inputs ----------------------------------------------------------------
\* request sizes within 1..MAX_MEMORY_OFFSET: the capacity of every order,
\* a size below the smallest block, and one strictly between two orders
Sizes == {1, 70000} \cup {sizeToBytes(k) : k \in 0..RootOrder}

\* request sizes outside 1..MAX_MEMORY_OFFSET
DegenerateSizes == {0, MAX_MEMORY_OFFSET + 1}

\* addresses handed to release: the base of every smallest block, an address
\* inside a block, and the first address past the region
Addrs == {memoryBlock + i * BASE_SIZE : i \in 0..(Pow2(RootOrder) - 1)}
            \cup {memoryBlock + 1, memoryBlock + MAX_MEMORY_OFFSET}

\* ---- views of the tree -----------------------------------------------------
Leaves(h) == {n \in DOMAIN h : ~h[n].terminal}
Occupied(h) == {n \in Leaves(h) : h[n].memLength # 0}
FreeLeaves(h) == {n \in Leaves(h) : h[n].memLength = 0}

\* ---- the state machine -----------------------------------------------------
\* the allocator after construction
InitTree ==
    /\ heap = [n \in {head} |-> Buddy(memoryBlock, RootOrder)]
    /\ lastOp = [op |-> "new", arg |-> NULL, address |-> NULL, returnValue |-> FALSE]

\* bytesToSize not called on its own
InitNoConv == conv = [numBytes |-> <<>>, size |-> <<>>]

\* main not running: the allocator is driven by any caller
InitNoMain ==
    /\ memLocations = [k \in 0..(Slots - 1) |-> NULL]
    /\ j = 0
    /\ pc = "none"

Init == InitTree /\ InitNoConv /\ InitNoMain

\* head->allocate(numBytes, data); the model stops allocating at MaxLive blocks
Allocate(numBytes) ==
    /\ pc = "none"
    /\ Cardinality(Occupied(heap)) < MaxLive
    /\ LET done == allocate(heap, numBytes)
       IN  /\ heap' = done.heap
           /\ lastOp' = [op |-> "allocate", arg |-> numBytes,
                        address |-> done.ret, returnValue |-> FALSE]
    /\ UNCHANGED <<conv, memLocations, j, pc>>

\* head->release(memToRelease)
Release(memToRelease) ==
    /\ pc = "none"
    /\ LET done == release(heap, head, memToRelease)
       IN  /\ heap' = done.heap
           /\ lastOp' = [op |-> "release", arg |-> memToRelease,
                        address |-> NULL, returnValue |-> done.returnValue]
    /\ UNCHANGED <<conv, memLocations, j, pc>>

Next ==
    \/ \E numBytes \in Sizes : Allocate(numBytes)
    \/ \E memToRelease \in Addrs : Release(memToRelease)

Spec == Init /\ [][Next]_vars

\* the same allocator when the caller also passes sizes outside 1..MAX_MEMORY_OFFSET
NextAny ==
    \/ \E numBytes \in Sizes \cup DegenerateSizes : Allocate(numBytes)
    \/ \E memToRelease \in Addrs : Release(memToRelease)

SpecAny == Init /\ [][NextAny]_vars

\* ---- bytesToSize on its own ------------------------------------------------
\* arguments of bytesToSize: every power of two up to the region size and its
\* two neighbours, within 1..MAX_MEMORY_OFFSET
ConvInputs ==
    {b \in UNION {{Pow2(e) - 1, Pow2(e), Pow2(e) + 1} : e \in 0..(RootOrder + 16)} :
        1 <= b /\ b <= MAX_MEMORY_OFFSET}

\* two arguments are chosen, bytesToSize has not run yet
InitConvert ==
    /\ InitTree
    /\ InitNoMain
    /\ \E a \in ConvInputs, b \in ConvInputs : conv = [numBytes |-> <<a, b>>, size |-> <<>>]

\* bytesToSize is called on each argument
Convert ==
    /\ conv.size = <<>>
    /\ conv' = [conv EXCEPT !.size = <<bytesToSize(conv.numBytes[1]),
                                       bytesToSize(conv.numBytes[2])>>]
    /\ UNCHANGED <<heap, lastOp, memLocations, j, pc>>

NextConvert == Convert

SpecConvert == InitConvert /\ [][NextConvert]_vars

\* ---- main: the interactive driver -------------------------------------------
\* a value an entry of the uninitialized memLocations may hold besides NULL
\* (what was on the stack): an address that is no block of the tree
StackGarbage == memoryBlock + MAX_MEMORY_OFFSET

\* memLocations is never initialized: each entry starts as NULL or as garbage;
\* the model lets at most MaxGarbage entries start as garbage
UninitializedTables ==
    {t \in [0..(Slots - 1) -> {NULL, StackGarbage}] :
        Cardinality({k \in 0..(Slots - 1) : t[k] # NULL}) <= MaxGarbage}

\* main before the first prompt; j is written before it is first read
InitMain ==
    /\ InitTree
    /\ InitNoConv
    /\ memLocations \in UninitializedTables
    /\ j = 0
    /\ pc = "menu"

\* the entries of memLocations that hold no pointer
OpenSlots(t) == {k \in 0..(Slots - 1) : t[k] = NULL}
Lowest(S) == CHOOSE k \in S : \A other \in S : k <= other

\* case 0: numBytes is read into j, allocated, and the address saved in the
\* first open entry of memLocations (in none when all are taken)
MainAllocate(numBytes) ==
    /\ pc = "menu"
    /\ Cardinality(Occupied(heap)) < MaxLive
    /\ LET done == allocate(heap, numBytes)
       IN  /\ heap' = done.heap
           /\ lastOp' = [op |-> "allocate", arg |-> numBytes,
                        address |-> done.ret, returnValue |-> FALSE]
           /\ memLocations' =
                IF done.ret # NULL /\ OpenSlots(memLocations) # {}
                THEN [memLocations EXCEPT ![Lowest(OpenSlots(memLocations))] = done.ret]
                ELSE memLocations
    /\ j' = numBytes
    /\ UNCHANGED <<conv, pc>>

\* case 1 up to the first `cin >> j`: the for loop lists the taken entries and
\* leaves j = 16; with nothing to list main goes back to the menu
MainDeallocate ==
    /\ pc = "menu"
    /\ j' = Slots
    /\ pc' = IF OpenSlots(memLocations) = 0..(Slots - 1) THEN "menu" ELSE "index"
    /\ UNCHANGED <<heap, lastOp, conv, memLocations>>

\* the test of the while loop that asks for the index again.  For index < 0
\* memLocations[index] is read outside the array; whatever that read gives,
\* index < 1 holds and the loop goes on.
InvalidIndex(t, index) ==
    IF index > 15 THEN TRUE
    ELSE IF index < 0 THEN TRUE
    ELSE t[index] = NULL \/ index < 1

\* `cin >> j` in case 1, the first one or one inside the while loop, and what
\* follows it: the prompt again, or release and the entry cleared
MainIndex(index) ==
    /\ pc = "index"
    /\ j' = index
    /\ IF InvalidIndex(memLocations, index)
       THEN UNCHANGED <<heap, lastOp, memLocations, pc>>
       ELSE LET done == release(heap, head, memLocations[index])
            IN  /\ heap' = done.heap
                /\ lastOp' = [op |-> "release", arg |-> memLocations[index],
                             address |-> NULL, returnValue |-> done.returnValue]
                /\ memLocations' = [memLocations EXCEPT ![index] = NULL]
                /\ pc' = "menu"
    /\ UNCHANGED conv

\* a negative number at the menu: the loop ends and delete(head) destroys the tree
MainExit ==
    /\ pc = "menu"
    /\ pc' = "done"
    /\ heap' = [n \in DOMAIN heap \ destroyed(heap, head) |-> heap[n]]
    /\ UNCHANGED <<lastOp, conv, memLocations, j>>

\* the numbers typed at the index prompt
Indexes == -1..Slots

NextMain ==
    \/ \E numBytes \in Sizes : MainAllocate(numBytes)
    \/ MainDeallocate
    \/ \E index \in Indexes : MainIndex(index)
    \/ MainExit

SpecMain == InitMain /\ [][NextMain]_vars

\* ---- vocabulary of the properties -------------------------------------------
capacity(h, n) == sizeToBytes(h[n].size)
LeavesAt(h, a) == {n \in Leaves(h) : h[n].memStart = a}
OccupiedAt(h, a) == {n \in Occupied(h) : h[n].memStart = a}
InRange(h, n, a) == h[n].memStart <= a /\ a < h[n].memStart + capacity(h, n)
FreshHeap == [n \in {head} |-> Buddy(memoryBlock, RootOrder)]
ValidBytes(b) == 1 <= b /\ b <= MAX_MEMORY_OFFSET

RECURSIVE SumOver(_, _, _)
SumOver(h, S, field) ==
    IF S = {} THEN 0
    ELSE LET n == CHOOSE x \in S : TRUE
         IN  (IF field = "memLength" THEN h[n].memLength ELSE capacity(h, n))
                + SumOver(h, S \ {n}, field)

\* every block of the complete tree: <<base address, order>>
Blocks ==
    UNION {{<<memoryBlock + i * sizeToBytes(k), k>> : i \in 0..(Pow2(RootOrder - k) - 1)} :
            k \in 0..RootOrder}
Overlaps(h, n, blk) ==
    /\ h[n].memStart < blk[1] + sizeToBytes(blk[2])
    /\ blk[1] < h[n].memStart + capacity(h, n)
Covers(h, n, blk) ==
    /\ h[n].memStart <= blk[1]
    /\ blk[1] + sizeToBytes(blk[2]) <= h[n].memStart + capacity(h, n)

\* ---- C1 ----------------------------------------------------------------------
\* C1: a successful allocate(b) returns the base of an occupied leaf holding b
\* bytes, and every occupied leaf stays exactly as it is (same object, same
\* base, order and used length) across every step that is not a release of its
\* own address; a later successful allocate returns an address outside its range.
StableUntilReleased ==
    [][ /\ (lastOp'.op = "allocate" /\ lastOp'.address # NULL)
            => \E n \in OccupiedAt(heap', lastOp'.address) : heap'[n].memLength = lastOp'.arg
        /\ \A n \in Occupied(heap) :
            ~(lastOp'.op = "release" /\ lastOp'.arg = heap[n].memStart)
            => /\ n \in Occupied(heap')
               /\ heap'[n] = heap[n]
               /\ (lastOp'.op = "allocate" /\ lastOp'.address # NULL)
                    => ~InRange(heap, n, lastOp'.address) ]_vars

\* a block survived the release of its buddy
StableUntilReleasedReached ==
    /\ lastOp.op = "release"
    /\ lastOp.returnValue
    /\ OccupiedAt(heap, lastOp.arg) = {}
    /\ \E n \in Occupied(heap) : heap[n].memStart = lastOp.arg + BASE_SIZE

\* ---- C2 ----------------------------------------------------------------------
\* C2: after a successful allocate(b), the leaf holding the data has capacity c
\* with c/2 < b <= c, or it is a block of order 0 and b is below BASE_SIZE.
TightestFit ==
    (lastOp.op = "allocate" /\ lastOp.address # NULL)
    => \A n \in LeavesAt(heap, lastOp.address) :
          \/ capacity(heap, n) < 2 * lastOp.arg /\ lastOp.arg <= capacity(heap, n)
          \/ heap[n].size = 0 /\ lastOp.arg < BASE_SIZE

\* ---- C3 ----------------------------------------------------------------------
\* C3: on the freshly constructed tree, allocate(sizeToBytes(k)) succeeds for
\* every order k and occupies a leaf of order exactly k.
ExactFit ==
    [][ \A k \in 0..RootOrder :
          (heap = FreshHeap /\ lastOp'.op = "allocate" /\ lastOp'.arg = sizeToBytes(k))
          => /\ lastOp'.address # NULL
             /\ \E n \in OccupiedAt(heap', lastOp'.address) : heap'[n].size = k ]_vars

\* ---- C4 ----------------------------------------------------------------------
\* C4: release of an address that is not the base of an occupied leaf returns
\* false.
ReleaseRejectsUnknown ==
    [][ (lastOp'.op = "release" /\ OccupiedAt(heap, lastOp'.arg) = {})
          => ~lastOp'.returnValue ]_vars

\* ---- C5 ----------------------------------------------------------------------
\* C5: an allocate that returns NULL and a release that returns false leave the
\* whole tree unchanged.
FailureChangesNothing ==
    [][ (\/ lastOp'.op = "allocate" /\ lastOp'.address = NULL
         \/ lastOp'.op = "release" /\ ~lastOp'.returnValue)
          => heap' = heap ]_vars

\* a release failed on a tree with split nodes and two blocks in use
FailureChangesNothingReached ==
    /\ lastOp.op = "release"
    /\ ~lastOp.returnValue
    /\ lastOp.arg \in {heap[n].memStart + BASE_SIZE : n \in Occupied(heap)}
    /\ Cardinality(Occupied(heap)) = 2

\* ---- C6 ----------------------------------------------------------------------
\* C6: release of the base address of an occupied leaf L returns true, leaves no
\* occupied leaf at that address, and leaves every other occupied leaf as it was.
ReleaseFreesExactlyOne ==
    [][ \A n \in Occupied(heap) :
          (lastOp'.op = "release" /\ lastOp'.arg = heap[n].memStart)
          => /\ lastOp'.returnValue
             /\ OccupiedAt(heap', lastOp'.arg) = {}
             /\ (n \in DOMAIN heap' => heap'[n].memLength = 0)
             /\ Occupied(heap') = Occupied(heap) \ {n}
             /\ \A m \in Occupied(heap) \ {n} : heap'[m] = heap[m] ]_vars

\* a block reached through the left-then-right fallback was released while
\* another block stayed in use
ReleaseFreesExactlyOneReached ==
    /\ lastOp.op = "release"
    /\ lastOp.returnValue
    /\ lastOp.arg = memoryBlock + 2 * BASE_SIZE
    /\ Cardinality(Occupied(heap)) = 1
    /\ LeavesAt(heap, lastOp.arg) # {}

\* ---- C7 ----------------------------------------------------------------------
\* C7: every block of the complete tree that no occupied leaf overlaps lies
\* inside one free leaf, and an allocate of the block's capacity succeeds; with
\* nothing in use the tree is the single free root again.
MergeRestoresCapacity ==
    LET inUse == Occupied(heap)
        free == FreeLeaves(heap)
        unused == {blk \in Blocks : \A n \in inUse : ~Overlaps(heap, n, blk)}
    IN  /\ \A blk \in unused : \E n \in free : Covers(heap, n, blk)
        /\ \A k \in {blk[2] : blk \in unused} : allocate(heap, sizeToBytes(k)).ret # NULL
        /\ inUse = {} => heap = FreshHeap

\* the last block in use, not at the start of the region, was released and the
\* merges ran up to the root
MergeRestoresCapacityReached ==
    /\ lastOp.op = "release"
    /\ lastOp.returnValue
    /\ lastOp.arg # memoryBlock
    /\ heap = FreshHeap

\* ---- C8 ----------------------------------------------------------------------
\* C8: allocate(b), 1 <= b <= MAX_MEMORY_OFFSET, returns NULL exactly when no
\* free leaf has capacity >= b.
AllocateFailsIffNoRoom ==
    [][ (lastOp'.op = "allocate" /\ ValidBytes(lastOp'.arg))
          => (lastOp'.address = NULL
                <=> ~\E n \in FreeLeaves(heap) : capacity(heap, n) >= lastOp'.arg) ]_vars

\* an allocate found its free leaf in the right half of the region
AllocateFailsIffNoRoomReached ==
    /\ lastOp.op = "allocate"
    /\ lastOp.address = memoryBlock + sizeToBytes(RootOrder - 1)
    /\ Cardinality(Occupied(heap)) = 2

\* ---- C9 ----------------------------------------------------------------------
\* C9: the leaves' ranges are pairwise disjoint, lie in the region and add up
\* to the region, and the used lengths add up to at most the region size.
NoDoubleCounting ==
    /\ \A n, m \in Leaves(heap) :
          n # m => \/ heap[n].memStart + capacity(heap, n) <= heap[m].memStart
                   \/ heap[m].memStart + capacity(heap, m) <= heap[n].memStart
    /\ \A n \in Leaves(heap) :
          /\ memoryBlock <= heap[n].memStart
          /\ heap[n].memStart + capacity(heap, n) <= memoryBlock + MAX_MEMORY_OFFSET
    /\ SumOver(heap, Leaves(heap), "capacity") = MAX_MEMORY_OFFSET
    /\ SumOver(heap, Leaves(heap), "memLength") <= MAX_MEMORY_OFFSET

\* the region is cut into at least five leaves, two of them in use
NoDoubleCountingReached ==
    /\ Cardinality(Leaves(heap)) >= 5
    /\ Cardinality(Occupied(heap)) = 2

\* ---- C10 ---------------------------------------------------------------------
\* C10: allocate with 0 bytes or with more bytes than the region returns NULL
\* and leaves the tree unchanged.
DegenerateRejected ==
    [][ (lastOp'.op = "allocate" /\ lastOp'.arg \in DegenerateSizes)
          => /\ lastOp'.address = NULL
             /\ heap' = heap ]_vars

\* ---- C11 ---------------------------------------------------------------------
\* C11: for bytes in 1..MAX_MEMORY_OFFSET, bytesToSize returns the smallest
\* k >= 0 with BASE_SIZE * 2^k >= bytes: never negative, 0 for bytes up to
\* BASE_SIZE, and no smaller for a larger argument.
OrderForSizeExact ==
    conv.size # <<>>
    => /\ \A i \in 1..2 :
            /\ conv.size[i] >= 0
            /\ BASE_SIZE * Pow2(conv.size[i]) >= conv.numBytes[i]
            /\ conv.size[i] > 0 => BASE_SIZE * Pow2(conv.size[i] - 1) < conv.numBytes[i]
            /\ conv.numBytes[i] <= BASE_SIZE => conv.size[i] = 0
       /\ conv.numBytes[1] <= conv.numBytes[2] => conv.size[1] <= conv.size[2]

\* ---- C12 ---------------------------------------------------------------------
\* C12: the leaf check(numBytes) returns is a smallest one among the free leaves
\* that can hold numBytes.
CheckReturnsSmallest ==
    \A numBytes \in Sizes :
        LET found == check(heap, head, numBytes)
        IN  found # NULL
            => \A n \in FreeLeaves(heap) :
                  capacity(heap, n) >= numBytes => capacity(heap, n) >= capacity(heap, found)

LeafOrInternal ==
    \A n \in DOMAIN heap :
        /\ ~heap[n].terminal => (0 <= heap[n].memLength /\ heap[n].memLength <= capacity(heap, n))
        /\ heap[n].terminal => (heap[n].memLength = 0 /\ heap[n].size > 0)

\* below split objects, one leaf is filled to its capacity and one only partly
LeafOrInternalReached ==
    /\ \E n \in Occupied(heap) : heap[n].memLength = capacity(heap, n)
    /\ \E n \in Occupied(heap) : heap[n].memLength < capacity(heap, n)
    /\ Cardinality({n \in DOMAIN heap : heap[n].terminal}) >= 3

\* ---- C15 ---------------------------------------------------------------------
\* C15: an object is split exactly when it has two children (otherwise it has
\* none); a child has its parent's order less one, never below 0; the left
\* child starts where the parent starts and the right child half the parent's
\* block further; every object but the root is the child of one object.
TreeShape ==
    /\ \A n \in DOMAIN heap :
          IF heap[n].terminal
          THEN /\ heap[n].left \in DOMAIN heap
               /\ heap[n].right \in DOMAIN heap
               /\ heap[n].left # heap[n].right
               /\ heap[n].size > 0
               /\ heap[heap[n].left].size = heap[n].size - 1
               /\ heap[heap[n].right].size = heap[n].size - 1
               /\ heap[heap[n].left].memStart = heap[n].memStart
               /\ heap[heap[n].right].memStart
                    = heap[n].memStart + sizeToBytes(heap[n].size - 1)
          ELSE heap[n].left = NULL /\ heap[n].right = NULL
    /\ \A n \in DOMAIN heap :
          heap[n].size >= 0
    /\ \A c \in DOMAIN heap \ {head} :
          Cardinality({n \in DOMAIN heap : heap[n].terminal /\ c \in {heap[n].left, heap[n].right}}) = 1

\* the tree is split down to order 0 in its right half after a merge in its left
TreeShapeReached ==
    /\ lastOp.op = "release"
    /\ lastOp.returnValue
    /\ \E n \in Occupied(heap) :
          heap[n].size = 0 /\ heap[n].memStart >= memoryBlock + sizeToBytes(RootOrder - 1)
    /\ \E n \in FreeLeaves(heap) :
          heap[n].size = RootOrder - 1 /\ heap[n].memStart = memoryBlock

\* ---- C16 ---------------------------------------------------------------------
\* C16: no split object has two children that are both free leaves, and below
\* every split object some leaf is in use.
MaximalMerge ==
    \A n \in DOMAIN heap :
        heap[n].terminal
        => /\ ~(/\ heap[n].left \in FreeLeaves(heap)
                /\ heap[n].right \in FreeLeaves(heap))
           /\ \E m \in Occupied(heap) : InRange(heap, n, heap[m].memStart)

\* a release merged at least twice on the way up and stopped below the root,
\* at an object whose other half is still in use
MaximalMergeReached ==
    /\ lastOp.op = "release"
    /\ lastOp.returnValue
    /\ Occupied(heap) # {}
    /\ \E n \in FreeLeaves(heap) :
          /\ heap[n].size >= 2
          /\ InRange(heap, n, lastOp.arg)
          /\ lastOp.arg >= heap[n].memStart + BASE_SIZE

\* ---- C17 ---------------------------------------------------------------------
\* the canonical release: at a split object go only into the child whose range
\* holds the address, then test the merge condition
RECURSIVE releaseCanonical(_, _, _)
releaseCanonical(h, n, address) ==
    LET found ==
            IF ~h[n].terminal
            THEN IF address = h[n].memStart
                 THEN [heap |-> setLength(h, n, 0), returnValue |-> TRUE]
                 ELSE [heap |-> h, returnValue |-> FALSE]
            ELSE IF address < h[h[n].right].memStart
            THEN releaseCanonical(h, h[n].left, address)
            ELSE releaseCanonical(h, h[n].right, address)
    IN  IF /\ found.heap[n].terminal
           /\ found.heap[n].left \in FreeLeaves(found.heap)
           /\ found.heap[n].right \in FreeLeaves(found.heap)
        THEN [heap |-> merge(found.heap, n), returnValue |-> found.returnValue]
        ELSE found

\* C17: in every tree the callers of allocate and release can reach, and for
\* every address, release returns what the canonical release returns and leaves
\* the same tree.
ReleaseNavigation ==
    \A address \in Addrs :
        release(heap, head, address) = releaseCanonical(heap, head, address)

\* ---- C18 ---------------------------------------------------------------------
\* the entries of memLocations that hold an address saved after an allocate
SavedSlots(t) == {k \in 0..(Slots - 1) : t[k] # NULL /\ t[k] # StackGarbage}

\* C18: at the index prompt, an index 0..15 whose entry of memLocations holds a
\* saved address is accepted: release is called on that address and the entry
\* is cleared; and while some entry holds a saved address some index is
\* acceptable.
ListedIndexAccepted ==
    [][ pc = "index"
          => /\ j' \in SavedSlots(memLocations)
                  => /\ pc' = "menu"
                     /\ lastOp'.op = "release"
                     /\ lastOp'.arg = memLocations[j']
                     /\ memLocations'[j'] = NULL
             /\ SavedSlots(memLocations) # {}
                  => \E index \in Indexes : ~InvalidIndex(memLocations, index) ]_vars
====
